---------------------------- MODULE Spec2Model ----------------------------
(***************************************************************************)
(* A model of the two concurrency primitives of go.awhk.org/core:          *)
(*                                                                         *)
(*   Promise[T]     src/promise.go           a write-once result holder    *)
(*   PipeListener   src/unnamed/part_006     an in-process net.Listener    *)
(*   PipeListener   src/unnamed/part_005     its variant with a usable     *)
(*                                           zero value (sync.Once)        *)
(*                                                                         *)
(* Every call is a process with a program counter; one action is one       *)
(* atomic step of the Go code (an atomic.CompareAndSwapInt32, one channel  *)
(* operation, one select).                                                 *)
(***************************************************************************)
EXTENDS Integers, Sequences, FiniteSets, TLC

(***************************************************************************)
(* Bounds of the model.                                                    *)
(***************************************************************************)
NumFulfillers == 2      \* SucceedWith / FailWith calls on the promise
NumReaders    == 2      \* receives on Value() / Err()
MaxValue      == 1      \* values and errors passed are 0..MaxValue
NumAcceptors  == 2      \* Accept calls on the listener
NumDialers    == 2      \* Dial / DialContext calls
NumClosers    == 2      \* Close calls
NumZeroCalls  == 3      \* calls on the zero-value listener
NumSelectors  == 2      \* consumers that select on Value(), Err() and ctx.Done()
MaxStrLen     == 2      \* values separated by "," in one string given to a flag
MaxArgs       == 2      \* command-line arguments given to InitFlagSet
NumInits      == 2      \* InitFlagSet calls on the flag set
MaxMethods    == 2      \* methods given to one FilterHTTPMethod
MaxFilters    == 2      \* filters given to FilteringHTTPHandler

Fulfillers == 1..NumFulfillers
Readers    == 1..NumReaders
Values     == 0..MaxValue
Acceptors  == 1..NumAcceptors
Dialers    == 1..NumDialers
Closers    == 1..NumClosers
ZeroCalls  == 1..NumZeroCalls
Selectors  == 1..NumSelectors

(***************************************************************************)
(* Program constants.                                                      *)
(***************************************************************************)
PromiseChanCap == 1     \* make(chan T, 1), make(chan error, 1)
ZeroValue      == 0     \* the zero value of T, and the nil error
NilChan        == 0     \* the nil channel: the zero value of a channel field

VARIABLES
    promise,    \* [value, error: [buf, closed], closed: 0..1]  (type Promise)
    fpc,        \* position of each SucceedWith/FailWith call
    fop,        \* which of the two methods the call is
    farg,       \* its argument
    fret,       \* what it returned
    fafter,     \* history: the calls that had returned when this one started
    sent,       \* history: every value ever sent on each channel, in order
    rpc,        \* position of each receive
    rch,        \* the channel it receives from ("value" = Value(), "error" = Err())
    rres,       \* what it received: [val, ok]
    listener,   \* [closed: 0..1, conns: buffered endpoints, done: "open" | "closed"]
    apc,        \* position of each Accept call
    aret,       \* what it returned: [conn, err]
    ahist,      \* history: had a Close call returned when this call started
    dpc,        \* position of each Dial / DialContext call
    dret,       \* what it returned: [conn, err]
    dctx,       \* its context: [kind, err, late], err = ctx.Err(), late = the
                \* context was cancelled while the call was parked
    dhist,      \* history, as ahist
    cpc,        \* position of each Close call
    cret,       \* what it returned
    pipes,      \* the net.Pipe() of each dial: [made, closed: the ends closed]
    zl,         \* the zero-value listener: [conns, done, initOnce, closeOnce]
    zmade,      \* the number of channels made so far (a channel is its number)
    zclosed,    \* the channels closed
    zpc,        \* position of each call on the zero-value listener
    zop,        \* the method called: "Accept", "Dial" (DialContext) or "Close"
    zctx,       \* the context of a DialContext call
    zuse,       \* the channels the select of the call operates on: [conns, done]
    zret,       \* what the call returned: [conn, err]
    zhist,      \* history: had a Close call returned when this call started
    spc,        \* position of each consumer that selects on the promise
    sres,       \* the case its select took and what it received: [branch, val, ok]
    sctx,       \* the context the consumers select on: "live" or "done"
    flg,        \* the flag of the flag set: [kind, val, def, shouldAppend, parsed]
    ipc,        \* position of the InitFlagSet call in progress
    inext,      \* its local variable next
    iargs,      \* the number of command-line arguments it has parsed
    icalls,     \* the number of InitFlagSet calls made
    ierr,       \* what the last InitFlagSet call returned
    ipre,       \* history: the value of the flag, and whether the flag set
                \* was parsed, when the call started
    hfilters,   \* the filters of the filtering handler
    hpc,        \* position of the handler in the request it serves
    hidx,       \* the index of the next filter in its loop
    hreq,       \* the method of the request
    hw,         \* the response recorder: [header, status]
    hlog,       \* history: the filters called on the request and their results
    hserved     \* history: the calls of the wrapped handler on the request

promiseVars == <<promise, fpc, fop, farg, fret, fafter, sent, rpc, rch, rres>>

pipeVars == <<listener, apc, aret, ahist, dpc, dret, dctx, dhist, cpc, cret, pipes>>

zeroVars == <<zl, zmade, zclosed, zpc, zop, zctx, zuse, zret, zhist>>

selVars == <<spc, sres, sctx>>

flagVars == <<flg, ipc, inext, iargs, icalls, ierr, ipre>>

httpVars == <<hfilters, hpc, hidx, hreq, hw, hlog, hserved>>

vars == <<promiseVars, pipeVars, zeroVars, selVars, flagVars, httpVars>>

---------------------------------------------------------------------------
(***************************************************************************)
(* Go channels with a buffer, as used by Promise.                          *)
(***************************************************************************)
NewChan == [buf |-> <<>>, closed |-> FALSE]

\* A send on a channel proceeds when the buffer has room; on a closed
\* channel it panics (it never blocks).
CanSendUnbuffered(ch) == ch.closed
CanSend(ch) == ch.closed \/ Len(ch.buf) < PromiseChanCap

\* A receive proceeds when a value is buffered or the channel is closed.
CanRecv(ch) == Len(ch.buf) > 0 \/ ch.closed

\* The result of a receive that proceeds: the buffered value, or the zero
\* value with ok = FALSE from a closed and drained channel.
RecvResult(ch) ==
    IF Len(ch.buf) > 0 THEN [val |-> Head(ch.buf), ok |-> TRUE]
                       ELSE [val |-> ZeroValue, ok |-> FALSE]

AfterRecvKeeps(ch) == ch

AfterRecv(ch) == IF Len(ch.buf) > 0 THEN [ch EXCEPT !.buf = Tail(@)] ELSE ch

(***************************************************************************)
(* Promise.                                                                *)
(***************************************************************************)
\* NewPromise
NewPromise == [value |-> NewChan, error |-> NewChan, closed |-> 0]

\* atomic.CompareAndSwapInt32(&p.closed, 0, 1) succeeds iff the flag is 0.
CompareAndSwapAlways(cur, old) == TRUE
CompareAndSwapInt32(cur, old) == cur = old

\* The channel a method publishes on: FailWith on p.error, SucceedWith on
\* p.value.
FulfilChanSwapped(op) == IF op = "SucceedWith" THEN "error" ELSE "value"
FulfilChan(op) == IF op = "SucceedWith" THEN "value" ELSE "error"

InitPromise ==
    /\ promise = NewPromise
    /\ fpc = [f \in Fulfillers |-> "idle"]
    /\ fop = [f \in Fulfillers |-> "none"]
    /\ farg = [f \in Fulfillers |-> ZeroValue]
    /\ fret = [f \in Fulfillers |-> "none"]
    /\ fafter = [f \in Fulfillers |-> {}]
    /\ sent = [value |-> <<>>, error |-> <<>>]
    /\ rpc = [r \in Readers |-> "idle"]
    /\ rch = [r \in Readers |-> "none"]
    /\ rres = [r \in Readers |-> [val |-> ZeroValue, ok |-> FALSE]]

\* A goroutine calls p.SucceedWith(v) or p.FailWith(v).
FulfilCall(f, op, v) ==
    /\ fpc[f] = "idle"
    /\ fpc' = [fpc EXCEPT ![f] = "cas"]
    /\ fop' = [fop EXCEPT ![f] = op]
    /\ farg' = [farg EXCEPT ![f] = v]
    /\ fafter' = [fafter EXCEPT ![f] = {g \in Fulfillers : fpc[g] = "done"}]
    /\ UNCHANGED <<promise, fret, sent, rpc, rch, rres, pipeVars, zeroVars, selVars, flagVars, httpVars>>

\* if !atomic.CompareAndSwapInt32(&p.closed, 0, 1) { return ErrPromiseFulfilled }
FulfilCASAdd(f) ==
    /\ fpc[f] = "cas"
    /\ promise' = [promise EXCEPT !.closed = @ + 1]
    /\ IF promise.closed = 0
         THEN fpc' = [fpc EXCEPT ![f] = "send"] /\ fret' = fret
         ELSE /\ fpc' = [fpc EXCEPT ![f] = "done"]
              /\ fret' = [fret EXCEPT ![f] = "ErrPromiseFulfilled"]
    /\ UNCHANGED <<fop, farg, fafter, sent, rpc, rch, rres, pipeVars, zeroVars, selVars, flagVars, httpVars>>
FulfilCAS(f) ==
    /\ fpc[f] = "cas"
    /\ IF CompareAndSwapInt32(promise.closed, 0)
         THEN /\ promise' = [promise EXCEPT !.closed = 1]
              /\ fpc' = [fpc EXCEPT ![f] = "send"]
              /\ fret' = fret
         ELSE /\ fpc' = [fpc EXCEPT ![f] = "done"]
              /\ fret' = [fret EXCEPT ![f] = "ErrPromiseFulfilled"]
              /\ promise' = promise
    /\ UNCHANGED <<fop, farg, fafter, sent, rpc, rch, rres, pipeVars, zeroVars, selVars, flagVars, httpVars>>

\* p.value <- value   /   p.error <- err
FulfilSend(f) ==
    /\ fpc[f] = "send"
    /\ LET c == FulfilChan(fop[f]) IN
       /\ CanSend(promise[c])
       /\ IF promise[c].closed
            THEN /\ fpc' = [fpc EXCEPT ![f] = "done"]
                 /\ fret' = [fret EXCEPT ![f] = "panic"]
                 /\ UNCHANGED <<promise, sent>>
            ELSE /\ promise' = [promise EXCEPT ![c].buf = Append(@, farg[f])]
                 /\ sent' = [sent EXCEPT ![c] = Append(@, farg[f])]
                 /\ fpc' = [fpc EXCEPT ![f] = "close"]
                 /\ fret' = fret
    /\ UNCHANGED <<fop, farg, fafter, rpc, rch, rres, pipeVars, zeroVars, selVars, flagVars, httpVars>>

\* close(p.value); return nil   /   close(p.error); return nil
FulfilClose(f) ==
    /\ fpc[f] = "close"
    /\ LET c == FulfilChan(fop[f]) IN
       IF promise[c].closed
         THEN /\ fret' = [fret EXCEPT ![f] = "panic"]
              /\ promise' = promise
         ELSE /\ promise' = [promise EXCEPT ![c].closed = TRUE]
              /\ fret' = [fret EXCEPT ![f] = "nil"]
    /\ fpc' = [fpc EXCEPT ![f] = "done"]
    /\ UNCHANGED <<fop, farg, fafter, sent, rpc, rch, rres, pipeVars, zeroVars, selVars, flagVars, httpVars>>

\* A goroutine evaluates <-p.Value() or <-p.Err(): it now waits on the
\* channel.
RecvCall(r, c) ==
    /\ rpc[r] = "idle"
    /\ rpc' = [rpc EXCEPT ![r] = "recv"]
    /\ rch' = [rch EXCEPT ![r] = c]
    /\ UNCHANGED <<promise, fpc, fop, farg, fret, fafter, sent, rres, pipeVars, zeroVars, selVars, flagVars, httpVars>>

\* The receive completes.
RecvComplete(r) ==
    /\ rpc[r] = "recv"
    /\ CanRecv(promise[rch[r]])
    /\ rres' = [rres EXCEPT ![r] = RecvResult(promise[rch[r]])]
    /\ promise' = [promise EXCEPT ![rch[r]] = AfterRecv(@)]
    /\ rpc' = [rpc EXCEPT ![r] = "done"]
    /\ UNCHANGED <<fpc, fop, farg, fret, fafter, sent, rch, pipeVars, zeroVars, selVars, flagVars, httpVars>>

NextPromise ==
    \/ \E f \in Fulfillers, v \in Values : FulfilCall(f, "SucceedWith", v)
    \/ \E f \in Fulfillers, v \in Values : FulfilCall(f, "FailWith", v)
    \/ \E f \in Fulfillers : FulfilCAS(f)
    \/ \E f \in Fulfillers : FulfilSend(f)
    \/ \E f \in Fulfillers : FulfilClose(f)
    \/ \E r \in Readers : RecvCall(r, "value")
    \/ \E r \in Readers : RecvCall(r, "error")
    \/ \E r \in Readers : RecvComplete(r)

---------------------------------------------------------------------------
(***************************************************************************)
(* A consumer of the promise, as in ExamplePromise_withContext:            *)
(*   select { case s := <-p.Value(): case err := <-p.Err():                *)
(*            case <-ctx.Done(): }                                         *)
(***************************************************************************)
NoSelect == [branch |-> "none", val |-> ZeroValue, ok |-> FALSE]

InitSelect ==
    /\ spc = [s \in Selectors |-> "idle"]
    /\ sres = [s \in Selectors |-> NoSelect]
    /\ sctx = "live"

\* The cases of the select that can proceed: a receive proceeds when a value
\* is buffered or the channel is closed, <-ctx.Done() once ctx is done.
SelectCasesNoCtx ==
    (IF CanRecv(promise.value) THEN {"value"} ELSE {})
        \cup (IF CanRecv(promise.error) THEN {"error"} ELSE {})
SelectCases ==
    (IF CanRecv(promise.value) THEN {"value"} ELSE {})
        \cup (IF CanRecv(promise.error) THEN {"error"} ELSE {})
        \cup (IF sctx = "done" THEN {"ctx"} ELSE {})

\* A goroutine reaches the select. Consumers are numbered in the order they
\* do.
SelectCall(s) ==
    /\ spc[s] = "idle"
    /\ \A t \in 1..(s - 1) : spc[t] # "idle"
    /\ spc' = [spc EXCEPT ![s] = "select"]
    /\ UNCHANGED <<sres, sctx, promiseVars, pipeVars, zeroVars, flagVars, httpVars>>

\* The select takes one of the cases that can proceed.
SelectComplete(s) ==
    /\ spc[s] = "select"
    /\ \E k \in SelectCases :
          IF k = "ctx"
            THEN /\ sres' = [sres EXCEPT ![s] = [NoSelect EXCEPT !.branch = "ctx"]]
                 /\ promise' = promise
            ELSE /\ sres' = [sres EXCEPT ![s] =
                                [branch |-> k,
                                 val |-> RecvResult(promise[k]).val,
                                 ok |-> RecvResult(promise[k]).ok]]
                 /\ promise' = [promise EXCEPT ![k] = AfterRecv(@)]
    /\ spc' = [spc EXCEPT ![s] = "done"]
    /\ UNCHANGED <<fpc, fop, farg, fret, fafter, sent, rpc, rch, rres, sctx, pipeVars, zeroVars, flagVars, httpVars>>

\* cancel() is called, or the deadline of ctx passes.
CtxDone ==
    /\ sctx = "live"
    /\ sctx' = "done"
    /\ UNCHANGED <<spc, sres, promiseVars, pipeVars, zeroVars, flagVars, httpVars>>

\* The one goroutine of the example that settles the promise the consumers
\* wait on (calls that compete to settle a promise are the matter of
\* SpecPromise).
Produce(op, v) == FulfilCall(1, op, v)

NextSelect ==
    \/ \E v \in Values : Produce("SucceedWith", v)
    \/ \E v \in Values : Produce("FailWith", v)
    \/ \E f \in Fulfillers : FulfilCAS(f)
    \/ \E f \in Fulfillers : FulfilSend(f)
    \/ \E f \in Fulfillers : FulfilClose(f)
    \/ \E s \in Selectors : SelectCall(s)
    \/ \E s \in Selectors : SelectComplete(s)
    \/ CtxDone

---------------------------------------------------------------------------
(***************************************************************************)
(* PipeListener.                                                           *)
(***************************************************************************)
NilConn == [pipe |-> 0, end |-> "nil"]

\* s, c := net.Pipe() in the DialContext call d
ServerEnd(d) == [pipe |-> d, end |-> "server"]
ClientEnd(d) == [pipe |-> d, end |-> "client"]

NoReturn == [conn |-> NilConn, err |-> "none"]

\* The pipe of a dial: not made yet, and as net.Pipe() returns it, with both
\* ends open.
NoPipe == [made |-> FALSE, closed |-> {}]
NetPipe == [made |-> TRUE, closed |-> {}]

\* make(chan net.Conn): a channel with no buffer.
MakeConnsBuffered == [cap |-> 1, buf |-> <<>>]
MakeConns == [cap |-> 0, buf |-> <<>>]

\* ListenPipe
ListenPipe == [closed |-> 0, conns |-> MakeConns, done |-> "open"]

CtxErrs == {"Canceled", "DeadlineExceeded"}

\* The goroutines parked in a select on p.conns: Accept calls waiting to
\* receive, DialContext calls waiting to send.
RecvQLost == {}
RecvQ == {a \in Acceptors : apc[a] = "parked"}
SendQ == {d \in Dialers : dpc[d] = "parked"}

\* case <-p.done is ready once the channel is closed.
DoneNeverReady == FALSE
DoneClosed == listener.done = "closed"

\* close(p.done) wakes every goroutine parked in a select that has the case
\* <-p.done.
WokenByCloseOne(q) == IF q = {} THEN {} ELSE {CHOOSE x \in q : TRUE}
WokenByClose(q) == q

\* History taken when a call starts: has a Close call returned already.
CloseReturned == \E c \in Closers : cpc[c] = "done"

\* The listener as ListenPipe returns it, with no call made on it yet.
InitPipe ==
    /\ listener = ListenPipe
    /\ apc = [a \in Acceptors |-> "idle"]
    /\ aret = [a \in Acceptors |-> NoReturn]
    /\ ahist = [a \in Acceptors |-> FALSE]
    /\ dpc = [d \in Dialers |-> "idle"]
    /\ dret = [d \in Dialers |-> NoReturn]
    /\ dctx = [d \in Dialers |-> [kind |-> "none", err |-> "nil", late |-> FALSE]]
    /\ dhist = [d \in Dialers |-> FALSE]
    /\ cpc = [c \in Closers |-> "idle"]
    /\ cret = [c \in Closers |-> "none"]
    /\ pipes = [d \in Dialers |-> NoPipe]

\* The cases of Accept's select that can proceed.
AcceptCases ==
    (IF SendQ # {} \/ Len(listener.conns.buf) > 0 THEN {"conns"} ELSE {})
        \cup (IF DoneClosed THEN {"done"} ELSE {})

\* case conn := <-p.conns: return conn, nil
\* The value comes from a parked sender, which is woken with its send done
\* (or from the buffer, refilled from a parked sender, if there were one).
AcceptRecv(a) ==
    IF Len(listener.conns.buf) > 0
      THEN /\ aret' = [aret EXCEPT ![a] = [conn |-> Head(listener.conns.buf), err |-> "nil"]]
           /\ IF SendQ # {}
                THEN \E d \in SendQ :
                       /\ listener' = [listener EXCEPT !.conns.buf = Append(Tail(@), ServerEnd(d))]
                       /\ dpc' = [dpc EXCEPT ![d] = "done"]
                       /\ dret' = [dret EXCEPT ![d] = [conn |-> ClientEnd(d), err |-> "nil"]]
                ELSE /\ listener' = [listener EXCEPT !.conns.buf = Tail(@)]
                     /\ UNCHANGED <<dpc, dret>>
      ELSE \E d \in SendQ :
             /\ aret' = [aret EXCEPT ![a] = [conn |-> ServerEnd(d), err |-> "nil"]]
             /\ dpc' = [dpc EXCEPT ![d] = "done"]
             /\ dret' = [dret EXCEPT ![d] = [conn |-> ClientEnd(d), err |-> "nil"]]
             /\ listener' = listener

\* case <-p.done: return nil, syscall.EINVAL
AcceptDone(a) ==
    /\ aret' = [aret EXCEPT ![a] = [conn |-> NilConn, err |-> "EINVAL"]]
    /\ UNCHANGED <<listener, dpc, dret>>

\* A goroutine calls p.Accept() and runs its select: one of the cases that
\* can proceed is chosen; with none, the goroutine parks on both channels.
\* (The call touches nothing shared before its select, so the two are one
\* step. Calls of one method are numbered in the order they are made.)
Accept(a) ==
    /\ apc[a] = "idle"
    /\ \A b \in 1..(a - 1) : apc[b] # "idle"
    /\ ahist' = [ahist EXCEPT ![a] = CloseReturned]
    /\ IF AcceptCases = {}
         THEN /\ apc' = [apc EXCEPT ![a] = "parked"]
              /\ UNCHANGED <<listener, aret, dpc, dret>>
         ELSE /\ apc' = [apc EXCEPT ![a] = "done"]
              /\ \E k \in AcceptCases :
                    IF k = "conns" THEN AcceptRecv(a) ELSE AcceptDone(a)
    /\ UNCHANGED <<dctx, dhist, cpc, cret, pipes, promiseVars, zeroVars, selVars, flagVars, httpVars>>

\* The cases of DialContext's select that can proceed; e is ctx.Err().
DialCases(e) ==
    (IF RecvQ # {} \/ Len(listener.conns.buf) < listener.conns.cap THEN {"conns"} ELSE {})
        \cup (IF DoneClosed THEN {"done"} ELSE {})
        \cup (IF e # "nil" THEN {"ctx"} ELSE {})

\* case p.conns <- s: return c, nil
\* The value goes to a parked receiver, which is woken with it (or into the
\* buffer, if there were one).
DialSend(d) ==
    /\ dret' = [dret EXCEPT ![d] = [conn |-> ClientEnd(d), err |-> "nil"]]
    /\ IF RecvQ # {}
         THEN \E a \in RecvQ :
                /\ apc' = [apc EXCEPT ![a] = "done"]
                /\ aret' = [aret EXCEPT ![a] = [conn |-> ServerEnd(d), err |-> "nil"]]
                /\ listener' = listener
         ELSE /\ listener' = [listener EXCEPT !.conns.buf = Append(@, ServerEnd(d))]
              /\ UNCHANGED <<apc, aret>>

\* case <-p.done: return nil, syscall.ECONNREFUSED
DialRefused(d) ==
    /\ dret' = [dret EXCEPT ![d] = [conn |-> NilConn, err |-> "ECONNREFUSED"]]
    /\ UNCHANGED <<listener, apc, aret>>

\* case <-ctx.Done(): return nil, ctx.Err()
DialCtxDoneNilErr(d, e) ==
    /\ dret' = [dret EXCEPT ![d] = [conn |-> NilConn, err |-> "nil"]]
    /\ UNCHANGED <<listener, apc, aret>>
DialCtxDone(d, e) ==
    /\ dret' = [dret EXCEPT ![d] = [conn |-> NilConn, err |-> e]]
    /\ UNCHANGED <<listener, apc, aret>>

\* A goroutine calls p.DialContext(ctx, ...), where ctx.Err() is e: it runs
\* s, c := net.Pipe() and the select.
DialContext(d, kind, e) ==
    /\ dpc[d] = "idle"
    /\ \A b \in 1..(d - 1) : dpc[b] # "idle"
    /\ dctx' = [dctx EXCEPT ![d] = [kind |-> kind, err |-> e, late |-> FALSE]]
    /\ dhist' = [dhist EXCEPT ![d] = CloseReturned]
    /\ pipes' = [pipes EXCEPT ![d] = NetPipe]
    /\ IF DialCases(e) = {}
         THEN /\ dpc' = [dpc EXCEPT ![d] = "parked"]
              /\ UNCHANGED <<listener, apc, aret, dret>>
         ELSE /\ dpc' = [dpc EXCEPT ![d] = "done"]
              /\ \E k \in DialCases(e) :
                    CASE k = "conns" -> DialSend(d)
                      [] k = "done"  -> DialRefused(d)
                      [] k = "ctx"   -> DialCtxDone(d, e)
    /\ UNCHANGED <<ahist, cpc, cret, promiseVars, zeroVars, selVars, flagVars, httpVars>>

\* A goroutine calls p.Dial: DialContext with context.Background(), which is
\* never cancelled.
Dial(d) == DialContext(d, "background", "nil")

\* The context of a parked DialContext call is cancelled or times out: the
\* call is woken by case <-ctx.Done() and returns nil, ctx.Err().
Cancel(d, e) ==
    /\ dpc[d] = "parked"
    /\ dctx[d].kind = "cancelable"
    /\ dctx' = [dctx EXCEPT ![d].err = e, ![d].late = TRUE]
    /\ dpc' = [dpc EXCEPT ![d] = "done"]
    /\ DialCtxDone(d, e)
    /\ UNCHANGED <<ahist, dhist, cpc, cret, pipes, promiseVars, zeroVars, selVars, flagVars, httpVars>>

\* A goroutine calls p.Close():
\* if !atomic.CompareAndSwapInt32(&p.closed, 0, 1) { return syscall.EINVAL }
CloseToggle(c) ==
    /\ cpc[c] = "idle"
    /\ \A b \in 1..(c - 1) : cpc[b] # "idle"
    /\ listener' = [listener EXCEPT !.closed = 1 - @]
    /\ IF listener.closed = 0
         THEN cpc' = [cpc EXCEPT ![c] = "close"] /\ cret' = cret
         ELSE /\ cpc' = [cpc EXCEPT ![c] = "done"]
              /\ cret' = [cret EXCEPT ![c] = "EINVAL"]
    /\ UNCHANGED <<apc, aret, ahist, dpc, dret, dctx, dhist, pipes, promiseVars, zeroVars, selVars, flagVars, httpVars>>
Close(c) ==
    /\ cpc[c] = "idle"
    /\ \A b \in 1..(c - 1) : cpc[b] # "idle"
    /\ IF CompareAndSwapInt32(listener.closed, 0)
         THEN /\ listener' = [listener EXCEPT !.closed = 1]
              /\ cpc' = [cpc EXCEPT ![c] = "close"]
              /\ cret' = cret
         ELSE /\ cpc' = [cpc EXCEPT ![c] = "done"]
              /\ cret' = [cret EXCEPT ![c] = "EINVAL"]
              /\ listener' = listener
    /\ UNCHANGED <<apc, aret, ahist, dpc, dret, dctx, dhist, pipes, promiseVars, zeroVars, selVars, flagVars, httpVars>>

\* close(p.done); return nil
\* Closing a closed channel panics. Every parked select is woken by its case
\* <-p.done.
CloseDone(c) ==
    /\ cpc[c] = "close"
    /\ cpc' = [cpc EXCEPT ![c] = "done"]
    /\ IF listener.done = "closed"
         THEN /\ cret' = [cret EXCEPT ![c] = "panic"]
              /\ UNCHANGED <<listener, apc, aret, dpc, dret>>
         ELSE /\ cret' = [cret EXCEPT ![c] = "nil"]
              /\ listener' = [listener EXCEPT !.done = "closed"]
              /\ apc' = [a \in Acceptors |->
                            IF a \in WokenByClose(RecvQ) THEN "done" ELSE apc[a]]
              /\ aret' = [a \in Acceptors |->
                            IF a \in WokenByClose(RecvQ)
                              THEN [conn |-> NilConn, err |-> "EINVAL"] ELSE aret[a]]
              /\ dpc' = [d \in Dialers |->
                            IF d \in WokenByClose(SendQ) THEN "done" ELSE dpc[d]]
              /\ dret' = [d \in Dialers |->
                            IF d \in WokenByClose(SendQ)
                              THEN [conn |-> NilConn, err |-> "ECONNREFUSED"] ELSE dret[d]]
    /\ UNCHANGED <<ahist, dctx, dhist, pipes, promiseVars, zeroVars, selVars, flagVars, httpVars>>

NextPipe ==
    \/ \E a \in Acceptors : Accept(a)
    \/ \E d \in Dialers : Dial(d)
    \/ \E d \in Dialers, e \in CtxErrs \cup {"nil"} : DialContext(d, "cancelable", e)
    \/ \E d \in Dialers, e \in CtxErrs : Cancel(d, e)
    \/ \E c \in Closers : Close(c)
    \/ \E c \in Closers : CloseDone(c)

(***************************************************************************)
(* The connections handed out. A net.Pipe() connection knows nothing of    *)
(* the listener: closing an end is a step on the pipe alone.               *)
(***************************************************************************)
ConnEnds == {"server", "client"}

\* The end of the pipe of dial d has been returned to a caller: the client
\* end by the dial, the server end by an Accept.
HandedOver(d, end) ==
    IF end = "client" THEN dpc[d] = "done" /\ dret[d].conn = ClientEnd(d)
                      ELSE \E a \in Acceptors : apc[a] = "done" /\ aret[a].conn = ServerEnd(d)

\* The caller holding an end of a connection calls Close on it.
ConnCloseShutsListener(d, end) ==
    /\ HandedOver(d, end)
    /\ end \notin pipes[d].closed
    /\ pipes' = [pipes EXCEPT ![d].closed = @ \cup {end}]
    /\ listener' = [listener EXCEPT !.closed = 1]
    /\ UNCHANGED <<apc, aret, ahist, dpc, dret, dctx, dhist, cpc, cret, promiseVars, zeroVars, selVars, flagVars, httpVars>>
ConnClose(d, end) ==
    /\ HandedOver(d, end)
    /\ end \notin pipes[d].closed
    /\ pipes' = [pipes EXCEPT ![d].closed = @ \cup {end}]
    /\ UNCHANGED <<listener, apc, aret, ahist, dpc, dret, dctx, dhist, cpc, cret, promiseVars, zeroVars, selVars, flagVars, httpVars>>

NextConn ==
    \/ NextPipe
    \/ \E d \in Dialers, end \in ConnEnds : ConnClose(d, end)

---------------------------------------------------------------------------
(***************************************************************************)
(* The PipeListener of src/unnamed/part_005, whose zero value is usable:   *)
(* every method starts with p.initOnce.Do(p.init), and Close closes p.done *)
(* under p.closeOnce.                                                      *)
(***************************************************************************)
\* var p PipeListener
ZeroListener ==
    [conns |-> NilChan, done |-> NilChan, initOnce |-> "new", closeOnce |-> "new"]

\* What once.Do(f) does for its caller: the first caller runs f while holding
\* the lock of the Once; a caller arriving while f runs waits for it to
\* return; after that Do returns at once.
OnceEnterUnlocked(once) == IF once = "done" THEN "skip" ELSE "run"
OnceEnter(once) ==
    CASE once = "new"     -> "run"
      [] once = "running" -> "wait"
      [] once = "done"    -> "skip"

\* The contexts a DialContext call is given: context.Background(), a
\* context not done yet, a context already done with ctx.Err() in CtxErrs.
ZeroCtxs == {"background", "live"} \cup CtxErrs

InitZero ==
    /\ zl = ZeroListener
    /\ zmade = 0
    /\ zclosed = {}
    /\ zpc = [p \in ZeroCalls |-> "idle"]
    /\ zop = [p \in ZeroCalls |-> "none"]
    /\ zctx = [p \in ZeroCalls |-> "background"]
    /\ zuse = [p \in ZeroCalls |-> [conns |-> NilChan, done |-> NilChan]]
    /\ zret = [p \in ZeroCalls |-> NoReturn]
    /\ zhist = [p \in ZeroCalls |-> FALSE]

\* A goroutine calls p.Accept(), p.Close() or p.DialContext(ctx, ...) and
\* enters p.initOnce.Do(p.init).
ZeroCall(p, op, ctx) ==
    /\ zpc[p] = "idle"
    /\ \A q \in 1..(p - 1) : zpc[q] # "idle"
    /\ zop' = [zop EXCEPT ![p] = op]
    /\ zctx' = [zctx EXCEPT ![p] = ctx]
    /\ zhist' = [zhist EXCEPT ![p] = \E q \in ZeroCalls : zop[q] = "Close" /\ zpc[q] = "done"]
    /\ LET enter == OnceEnter(zl.initOnce) IN
         /\ zpc' = [zpc EXCEPT ![p] =
                       CASE enter = "run"  -> "init"
                         [] enter = "wait" -> "wait"
                         [] enter = "skip" -> "body"]
         /\ zl' = IF enter = "run" THEN [zl EXCEPT !.initOnce = "running"] ELSE zl
    /\ UNCHANGED <<zmade, zclosed, zuse, zret, promiseVars, pipeVars, selVars, flagVars, httpVars>>

\* p.initOnce.Do returns to a caller that waited for init to return.
ZeroOnceReturn(p) ==
    /\ zpc[p] = "wait"
    /\ zl.initOnce = "done"
    /\ zpc' = [zpc EXCEPT ![p] = "body"]
    /\ UNCHANGED <<zl, zmade, zclosed, zop, zctx, zuse, zret, zhist, promiseVars, pipeVars, selVars, flagVars, httpVars>>

\* init: p.conns = make(chan net.Conn)
ZeroInitConns(p) ==
    /\ zpc[p] = "init"
    /\ zmade' = zmade + 1
    /\ zl' = [zl EXCEPT !.conns = zmade + 1]
    /\ zpc' = [zpc EXCEPT ![p] = "init2"]
    /\ UNCHANGED <<zclosed, zop, zctx, zuse, zret, zhist, promiseVars, pipeVars, selVars, flagVars, httpVars>>

\* init: p.done = make(chan struct{}); init returns, and so does
\* p.initOnce.Do.
ZeroInitDone(p) ==
    /\ zpc[p] = "init2"
    /\ zmade' = zmade + 1
    /\ zl' = [zl EXCEPT !.done = zmade + 1, !.initOnce = "done"]
    /\ zpc' = [zpc EXCEPT ![p] = "body"]
    /\ UNCHANGED <<zclosed, zop, zctx, zuse, zret, zhist, promiseVars, pipeVars, selVars, flagVars, httpVars>>

\* The calls parked in a select on channel ch. A nil channel has no queue: a
\* case on it never proceeds.
ZeroRecvQ(ch) ==
    {q \in ZeroCalls : ch # NilChan /\ zpc[q] = "parked" /\ zop[q] = "Accept" /\ zuse[q].conns = ch}
ZeroSendQ(ch) ==
    {q \in ZeroCalls : ch # NilChan /\ zpc[q] = "parked" /\ zop[q] = "Dial" /\ zuse[q].conns = ch}
ZeroDoneQ(ch) ==
    {q \in ZeroCalls : ch # NilChan /\ zpc[q] = "parked" /\ zuse[q].done = ch}

\* Accept's select, on the channels p.conns and p.done as the call reads them.
ZeroAccept(p) ==
    /\ zpc[p] = "body" /\ zop[p] = "Accept"
    /\ zuse' = [zuse EXCEPT ![p] = [conns |-> zl.conns, done |-> zl.done]]
    /\ LET cases == (IF ZeroSendQ(zl.conns) # {} THEN {"conns"} ELSE {})
                        \cup (IF zl.done \in zclosed THEN {"done"} ELSE {})
       IN  IF cases = {}
             THEN zpc' = [zpc EXCEPT ![p] = "parked"] /\ zret' = zret
             ELSE \E k \in cases :
                    IF k = "conns"
                      THEN \E q \in ZeroSendQ(zl.conns) :
                             /\ zpc' = [zpc EXCEPT ![p] = "done", ![q] = "done"]
                             /\ zret' = [zret EXCEPT
                                           ![p] = [conn |-> ServerEnd(q), err |-> "nil"],
                                           ![q] = [conn |-> ClientEnd(q), err |-> "nil"]]
                      ELSE /\ zpc' = [zpc EXCEPT ![p] = "done"]
                           /\ zret' = [zret EXCEPT ![p] = [conn |-> NilConn, err |-> "EINVAL"]]
    /\ UNCHANGED <<zl, zmade, zclosed, zop, zctx, zhist, promiseVars, pipeVars, selVars, flagVars, httpVars>>

\* DialContext's s, c := net.Pipe() and select.
ZeroDial(p) ==
    /\ zpc[p] = "body" /\ zop[p] = "Dial"
    /\ zuse' = [zuse EXCEPT ![p] = [conns |-> zl.conns, done |-> zl.done]]
    /\ LET cases == (IF ZeroRecvQ(zl.conns) # {} THEN {"conns"} ELSE {})
                        \cup (IF zl.done \in zclosed THEN {"done"} ELSE {})
                        \cup (IF zctx[p] \in CtxErrs THEN {"ctx"} ELSE {})
       IN  IF cases = {}
             THEN zpc' = [zpc EXCEPT ![p] = "parked"] /\ zret' = zret
             ELSE \E k \in cases :
                    CASE k = "conns" ->
                           \E q \in ZeroRecvQ(zl.conns) :
                             /\ zpc' = [zpc EXCEPT ![p] = "done", ![q] = "done"]
                             /\ zret' = [zret EXCEPT
                                           ![p] = [conn |-> ClientEnd(p), err |-> "nil"],
                                           ![q] = [conn |-> ServerEnd(p), err |-> "nil"]]
                      [] k = "done" ->
                           /\ zpc' = [zpc EXCEPT ![p] = "done"]
                           /\ zret' = [zret EXCEPT ![p] = [conn |-> NilConn, err |-> "ECONNREFUSED"]]
                      [] k = "ctx" ->
                           /\ zpc' = [zpc EXCEPT ![p] = "done"]
                           /\ zret' = [zret EXCEPT ![p] = [conn |-> NilConn, err |-> zctx[p]]]
    /\ UNCHANGED <<zl, zmade, zclosed, zop, zctx, zhist, promiseVars, pipeVars, selVars, flagVars, httpVars>>

\* The context of a parked DialContext call is cancelled or times out.
ZeroCancel(p, e) ==
    /\ zpc[p] = "parked" /\ zop[p] = "Dial" /\ zctx[p] = "live"
    /\ zctx' = [zctx EXCEPT ![p] = e]
    /\ zpc' = [zpc EXCEPT ![p] = "done"]
    /\ zret' = [zret EXCEPT ![p] = [conn |-> NilConn, err |-> e]]
    /\ UNCHANGED <<zl, zmade, zclosed, zop, zuse, zhist, promiseVars, pipeVars, selVars, flagVars, httpVars>>

\* p.closeOnce.Do(func() { close(p.done) }); return nil
\* Closing a nil or a closed channel panics. The close wakes every call
\* parked on that channel. (A concurrent Do would wait for the close, so the
\* Do and the close are one step.)
ZeroClose(p) ==
    /\ zpc[p] = "body" /\ zop[p] = "Close"
    /\ IF OnceEnter(zl.closeOnce) = "run"
         THEN /\ zl' = [zl EXCEPT !.closeOnce = "done"]
              /\ IF zl.done = NilChan \/ zl.done \in zclosed
                   THEN /\ zret' = [zret EXCEPT ![p] = [conn |-> NilConn, err |-> "panic"]]
                        /\ zclosed' = zclosed
                        /\ zpc' = [zpc EXCEPT ![p] = "done"]
                   ELSE /\ zclosed' = zclosed \cup {zl.done}
                        /\ zpc' = [q \in ZeroCalls |->
                                      IF q = p \/ q \in ZeroDoneQ(zl.done) THEN "done" ELSE zpc[q]]
                        /\ zret' = [q \in ZeroCalls |->
                                      IF q = p THEN [conn |-> NilConn, err |-> "nil"]
                                      ELSE IF q \in ZeroDoneQ(zl.done)
                                        THEN [conn |-> NilConn,
                                              err |-> IF zop[q] = "Accept" THEN "EINVAL"
                                                                           ELSE "ECONNREFUSED"]
                                        ELSE zret[q]]
         ELSE /\ zret' = [zret EXCEPT ![p] = [conn |-> NilConn, err |-> "nil"]]
              /\ zpc' = [zpc EXCEPT ![p] = "done"]
              /\ UNCHANGED <<zl, zclosed>>
    /\ UNCHANGED <<zmade, zop, zctx, zuse, zhist, promiseVars, pipeVars, selVars, flagVars, httpVars>>

NextZero ==
    \/ \E p \in ZeroCalls : ZeroCall(p, "Accept", "background")
    \/ \E p \in ZeroCalls : ZeroCall(p, "Close", "background")
    \/ \E p \in ZeroCalls, ctx \in ZeroCtxs : ZeroCall(p, "Dial", ctx)
    \/ \E p \in ZeroCalls : ZeroOnceReturn(p)
    \/ \E p \in ZeroCalls : ZeroInitConns(p)
    \/ \E p \in ZeroCalls : ZeroInitDone(p)
    \/ \E p \in ZeroCalls : ZeroAccept(p)
    \/ \E p \in ZeroCalls : ZeroDial(p)
    \/ \E p \in ZeroCalls, e \in CtxErrs : ZeroCancel(p, e)
    \/ \E p \in ZeroCalls : ZeroClose(p)

---------------------------------------------------------------------------
(***************************************************************************)
(* Flags (src/unnamed/part_001, lines 196-495). A string is the sequence   *)
(* of the elements it has between "," separators: <<>> is the empty        *)
(* string, an element is a number of Numbers or NotANumber (any element    *)
(* strconv.Atoi rejects, the empty element included). The flag set holds   *)
(* one flag: on a call that succeeds, VisitAll treats every flag alone.    *)
(***************************************************************************)
Numbers == {0, 1}

NotANumber == 2

Elements == Numbers \cup {NotANumber}

RECURSIVE SeqsUpTo(_, _)
SeqsUpTo(S, n) ==
    IF n = 0 THEN {<<>>}
    ELSE LET shorter == SeqsUpTo(S, n - 1)
         IN  shorter \cup {Append(q, x) : q \in shorter, x \in S}

Strings == SeqsUpTo(Elements, MaxStrLen)

FlagKinds == {"string", "slice", "feature"}

\* What a flag may be registered with: a string for Flag(..., ParseString),
\* numbers for FlagSlice(..., strconv.Atoi, ","), enabled or not for
\* FlagFeature.
FlagDefaults(kind) ==
    CASE kind = "string"  -> SeqsUpTo(Elements, 1)
      [] kind = "slice"   -> SeqsUpTo(Numbers, 1)
      [] kind = "feature" -> {<<0>>, <<1>>}

NoFlag ==
    [kind |-> "none", val |-> <<>>, def |-> [form |-> "plain", elems |-> <<>>],
     shouldAppend |-> FALSE, parsed |-> FALSE]

\* Value.String(): "%v" of the value, which prints a slice between brackets,
\* and "true" or "false" for a feature.
FlagString(f) ==
    CASE f.kind = "slice"   -> [form |-> "list", elems |-> f.val]
      [] f.kind = "feature" -> [form |-> "bool", elems |-> f.val]
      [] OTHER              -> [form |-> "plain", elems |-> f.val]

\* fs.Var: the flag package records Value.String() as DefValue.
FlagVar(f, kind, value) ==
    LET g == [f EXCEPT !.kind = kind, !.val = value]
    IN  [g EXCEPT !.def = FlagString(g)]

\* strings.Split(s, ","): the empty string has one element, the empty one.
Split(s) == IF s = <<>> THEN <<NotANumber>> ELSE s

\* The body of the loop of flagValueSlice.Set once the element is parsed.
SliceStoreReplace(f, parsed) ==
    [f EXCEPT !.val = <<parsed>>, !.shouldAppend = TRUE]

SliceStore(f, parsed) ==
    IF f.shouldAppend
    THEN [f EXCEPT !.val = Append(@, parsed)]
    ELSE [f EXCEPT !.val = <<parsed>>, !.shouldAppend = TRUE]

\* flagValueSlice.Set: the elements before one that does not parse stay.
RECURSIVE SliceSet(_, _)
SliceSet(f, vals) ==
    IF vals = <<>> THEN [flag |-> f, err |-> FALSE]
    ELSE IF Head(vals) = NotANumber THEN [flag |-> f, err |-> TRUE]
    ELSE SliceSet(SliceStore(f, Head(vals)), Tail(vals))

\* flagFeature.Set: strconv.ParseBool takes "1" and "0" among the strings.
FeatureSet(f, s) ==
    IF s \in {<<0>>, <<1>>}
    THEN [flag |-> [f EXCEPT !.val = s], err |-> FALSE]
    ELSE [flag |-> f, err |-> TRUE]

\* flagValue.Set with ParseString.
ValueSet(f, s) == [flag |-> [f EXCEPT !.val = s], err |-> FALSE]

\* f.Value.Set(s)
Set(f, s) ==
    CASE f.kind = "slice"   -> SliceSet(f, Split(s))
      [] f.kind = "feature" -> FeatureSet(f, s)
      [] OTHER              -> ValueSet(f, s)

resetShouldAppend(f) ==
    IF f.kind = "slice" THEN [f EXCEPT !.shouldAppend = FALSE] ELSE f

\* The test at the top of the VisitAll callback: a flag whose value is no
\* longer the default is left alone, unless it is a MutableFlag.
SkipsNothing(f) == FALSE

Skips(f) == f.def # FlagString(f) /\ f.kind # "feature"

\* What environ or cfg holds for the flag.
Lookups ==
    {[found |-> FALSE, val |-> <<>>]} \cup {[found |-> TRUE, val |-> s] : s \in Strings}

InitFlag ==
    /\ flg = NoFlag
    /\ ipc = "idle"
    /\ inext = <<>>
    /\ iargs = 0
    /\ icalls = 0
    /\ ierr = "none"
    /\ ipre = [val |-> <<>>, parsed |-> FALSE]

\* core.Flag, core.FlagSlice or core.FlagFeature on the new flag set.
Register(kind, value) ==
    /\ flg.kind = "none"
    /\ flg' = FlagVar(flg, kind, value)
    /\ UNCHANGED <<ipc, inext, iargs, icalls, ierr, ipre, promiseVars, pipeVars, zeroVars, selVars, httpVars>>

\* InitFlagSet up to the lookup in environ.
InitFlagSet(env) ==
    /\ ipc = "idle"
    /\ flg.kind # "none"
    /\ icalls < NumInits
    /\ icalls' = icalls + 1
    /\ ipre' = [val |-> flg.val, parsed |-> flg.parsed]
    /\ iargs' = 0
    /\ ierr' = "nil"
    /\ IF Skips(flg)
       THEN /\ env = [found |-> FALSE, val |-> <<>>]
            /\ inext' = <<>>
            /\ ipc' = "visited"
       ELSE /\ inext' = IF env.found THEN env.val ELSE <<>>
            /\ ipc' = "lookup"
    /\ UNCHANGED <<flg, promiseVars, pipeVars, zeroVars, selVars, httpVars>>

\* The lookup in cfg, Set(next) and resetShouldAppend.
VisitSet(cfg) ==
    /\ ipc = "lookup"
    /\ LET next == IF cfg.found THEN cfg.val ELSE inext
           r    == IF next # <<>> THEN Set(flg, next) ELSE [flag |-> flg, err |-> FALSE]
       IN  /\ flg' = resetShouldAppend(r.flag)
           /\ ierr' = IF r.err THEN "err" ELSE "nil"
    /\ ipc' = "visited"
    /\ inext' = <<>>
    /\ UNCHANGED <<iargs, icalls, ipre, promiseVars, pipeVars, zeroVars, selVars, httpVars>>

\* if err == nil && !fs.Parsed() { return fs.Parse(args) }; return err
Visited ==
    /\ ipc = "visited"
    /\ IF ierr = "nil" /\ ~flg.parsed
       THEN /\ flg' = [flg EXCEPT !.parsed = TRUE]
            /\ ipc' = "parse"
       ELSE /\ flg' = flg
            /\ ipc' = "idle"
    /\ UNCHANGED <<inext, iargs, icalls, ierr, ipre, promiseVars, pipeVars, zeroVars, selVars, httpVars>>

\* fs.Parse on the argument -flag=s: an error ends the parsing.
ParseArg(s) ==
    /\ ipc = "parse"
    /\ iargs < MaxArgs
    /\ LET r == Set(flg, s)
       IN  /\ flg' = r.flag
           /\ ierr' = IF r.err THEN "err" ELSE "nil"
           /\ ipc' = IF r.err THEN "idle" ELSE "parse"
    /\ iargs' = iargs + 1
    /\ UNCHANGED <<inext, icalls, ipre, promiseVars, pipeVars, zeroVars, selVars, httpVars>>

\* fs.Parse when no argument is left.
ParseEnd ==
    /\ ipc = "parse"
    /\ ipc' = "idle"
    /\ UNCHANGED <<flg, inext, iargs, icalls, ierr, ipre, promiseVars, pipeVars, zeroVars, selVars, httpVars>>

NextFlag ==
    \/ \E kind \in FlagKinds : \E value \in FlagDefaults(kind) : Register(kind, value)
    \/ \E env \in Lookups : InitFlagSet(env)
    \/ \E cfg \in Lookups : VisitSet(cfg)
    \/ Visited
    \/ \E s \in Strings : ParseArg(s)
    \/ ParseEnd

(***************************************************************************)
(* HTTP filters (src/unnamed/part_000). A handler made by                  *)
(* FilteringHTTPHandler over filters made by FilterHTTPMethod serves one   *)
(* request at a time, each on a new response recorder; one action is one   *)
(* turn of the loop over the filters, or the call of the wrapped handler.  *)
(***************************************************************************)
Methods == {"GET", "HEAD", "POST"}

\* The place of a method in the order of sort.Strings.
Rank(m) == CASE m = "GET" -> 1 [] m = "HEAD" -> 2 [] m = "POST" -> 3

RECURSIVE Insert(_, _)
Insert(m, s) ==
    IF s = <<>> THEN <<m>>
    ELSE IF Rank(m) <= Rank(Head(s)) THEN <<m>> \o s
    ELSE <<Head(s)>> \o Insert(m, Tail(s))

\* sort.Strings
RECURSIVE SortStrings(_)
SortStrings(s) == IF s = <<>> THEN <<>> ELSE Insert(Head(s), SortStrings(Tail(s)))

\* strings.Join: the elements with sep between them, as a sequence of pieces.
RECURSIVE Join(_, _)
Join(s, sep) == IF Len(s) <= 1 THEN s ELSE <<Head(s), sep>> \o Join(Tail(s), sep)

\* The argument lists FilterHTTPMethod is given.
MethodLists == SeqsUpTo(Methods, MaxMethods)

StatusMethodNotAllowed == 405

StatusOK == 200

\* httptest.NewRecorder(): no header, no status written.
NewRecorder == [header |-> {}, status |-> 0]

\* w.Header().Set(name, value)
HeaderSet(w, name, value) ==
    [w EXCEPT !.header = {h \in @ : h.name # name} \cup {[name |-> name, value |-> value]}]

\* w.WriteHeader(code): the first status written is the one of the response.
WriteHeader(w, code) == [w EXCEPT !.status = IF @ = 0 THEN code ELSE @]

\* FilterHTTPMethod(methods...): what the returned closure captures.
FilterHTTPMethod(methods) ==
    LET sorted == SortStrings(methods)
    IN  [methods |-> sorted, allowed |-> Join(sorted, ", ")]

\* The closure FilterHTTPMethod returns, called on w and a request.
FilterFunc(filter, w, method) ==
    IF \E i \in 1..Len(filter.methods) : filter.methods[i] = method
    THEN [w |-> w, filtered |-> FALSE]
    ELSE [w |-> WriteHeader(HeaderSet(w, "Allowed", filter.allowed), StatusMethodNotAllowed),
          filtered |-> TRUE]

\* Where the handler of FilteringHTTPHandler goes after the filter at idx of
\* n filters: it returns when the request is filtered.
LoopAfterNoReturn(filtered, idx, n) == IF idx = n THEN "handler" ELSE "filters"

LoopAfter(filtered, idx, n) ==
    IF filtered THEN "idle" ELSE IF idx = n THEN "handler" ELSE "filters"

InitHTTP ==
    /\ hfilters = <<>>
    /\ hpc = "new"
    /\ hidx = 0
    /\ hreq = "none"
    /\ hw = NewRecorder
    /\ hlog = <<>>
    /\ hserved = 0

\* One more filter among the arguments of FilteringHTTPHandler, which are
\* evaluated before the call.
NewFilter(methods) ==
    /\ hpc = "new"
    /\ Len(hfilters) < MaxFilters
    /\ hfilters' = Append(hfilters, FilterHTTPMethod(methods))
    /\ UNCHANGED <<hpc, hidx, hreq, hw, hlog, hserved, promiseVars, pipeVars, zeroVars, selVars, flagVars>>

\* FilteringHTTPHandler(handler, filters...)
FilteringHTTPHandler ==
    /\ hpc = "new"
    /\ hpc' = "idle"
    /\ UNCHANGED <<hfilters, hidx, hreq, hw, hlog, hserved, promiseVars, pipeVars, zeroVars, selVars, flagVars>>

\* The handler is called with a request of the method and a new recorder.
ServeHTTP(method) ==
    /\ hpc = "idle"
    /\ hreq' = method
    /\ hw' = NewRecorder
    /\ hlog' = <<>>
    /\ hserved' = 0
    /\ hidx' = 1
    /\ hpc' = IF Len(hfilters) = 0 THEN "handler" ELSE "filters"
    /\ UNCHANGED <<hfilters, promiseVars, pipeVars, zeroVars, selVars, flagVars>>

\* One turn of the loop: if filter(w, req) { return }
Filter ==
    /\ hpc = "filters"
    /\ LET r == FilterFunc(hfilters[hidx], hw, hreq)
       IN  /\ hw' = r.w
           /\ hlog' = Append(hlog, [filter |-> hidx, filtered |-> r.filtered])
           /\ hpc' = LoopAfter(r.filtered, hidx, Len(hfilters))
    /\ hidx' = hidx + 1
    /\ UNCHANGED <<hfilters, hreq, hserved, promiseVars, pipeVars, zeroVars, selVars, flagVars>>

\* handler.ServeHTTP(w, req), the handler being one that writes 200.
Handler ==
    /\ hpc = "handler"
    /\ hw' = WriteHeader(hw, StatusOK)
    /\ hserved' = hserved + 1
    /\ hpc' = "idle"
    /\ UNCHANGED <<hfilters, hidx, hreq, hlog, promiseVars, pipeVars, zeroVars, selVars, flagVars>>

NextHTTP ==
    \/ \E methods \in MethodLists : NewFilter(methods)
    \/ FilteringHTTPHandler
    \/ \E method \in Methods : ServeHTTP(method)
    \/ Filter
    \/ Handler

(***************************************************************************)
(* Specifications.                                                         *)
(***************************************************************************)
Init == InitPromise /\ InitPipe /\ InitZero /\ InitSelect /\ InitFlag /\ InitHTTP

SpecPromise == Init /\ [][NextPromise]_vars

SpecPipe == Init /\ [][NextPipe]_vars

\* The listener together with the connections it has handed out.
SpecConn == Init /\ [][NextConn]_vars

\* The promise with consumers that select on it.
SpecSelect == Init /\ [][NextSelect]_vars

\* The scheduler runs every runnable goroutine: a call in progress takes its
\* next step and a select with a case that can proceed takes one. Whether a
\* call is made, and whether the context is ever cancelled, is up to the
\* program.
FairSpecSelect ==
    /\ SpecSelect
    /\ \A f \in Fulfillers : WF_vars(FulfilCAS(f) \/ FulfilSend(f) \/ FulfilClose(f))
    /\ \A s \in Selectors : WF_vars(SelectComplete(s))

\* The calls on a zero-value listener.
SpecZero == Init /\ [][NextZero]_vars

SpecFlag == Init /\ [][NextFlag]_vars

SpecHTTP == Init /\ [][NextHTTP]_vars

\* A goroutine in the middle of a call eventually takes its next step: the
\* Go scheduler runs every runnable goroutine. Whether a call is made at all,
\* and whether a context is ever cancelled, is up to the program.
FairSpecPipe == SpecPipe /\ \A c \in Closers : WF_vars(CloseDone(c))

---------------------------------------------------------------------------
(***************************************************************************)
(* Properties of Promise.                                                  *)
(***************************************************************************)
\* The call won the compare-and-swap: it is the one that settles the promise.
Won(f) == fpc[f] \in {"send", "close"} \/ (fpc[f] = "done" /\ fret[f] # "ErrPromiseFulfilled")

Started == {f \in Fulfillers : fpc[f] # "idle"}

\* C1: of the N >= 1 SucceedWith/FailWith calls issued on one promise, in
\* every interleaving at most one ever wins, and once all N have returned
\* exactly one has returned nil and the other N-1 ErrPromiseFulfilled.
C1_ExactlyOneNil ==
    /\ Cardinality({f \in Fulfillers : Won(f)}) <= 1
    /\ (Started # {} /\ \A f \in Started : fpc[f] = "done")
         => /\ Cardinality({f \in Started : fret[f] = "nil"}) = 1
            /\ Cardinality({f \in Started : fret[f] = "ErrPromiseFulfilled"})
                 = Cardinality(Started) - 1

\* All calls of the model ran concurrently (none had returned when another
\* started) and all have returned.
C1_Witness ==
    /\ \A f \in Fulfillers : fpc[f] = "done" /\ fafter[f] = {}
    /\ \E f, g \in Fulfillers : fop[f] = "SucceedWith" /\ fop[g] = "FailWith"

\* C2: when call g is the first on a new promise and has returned before any
\* other call starts, g returned nil, every later call returns
\* ErrPromiseFulfilled, the promise stays settled, only g's argument was ever
\* sent (on g's channel; nothing on the other), and a reader only ever
\* obtains g's argument.
C2_FirstCallOnly ==
    \A g \in Fulfillers :
        (/\ fpc[g] = "done"
         /\ \A h \in Fulfillers \ {g} : fpc[h] = "idle" \/ g \in fafter[h])
        => LET mine  == IF fop[g] = "SucceedWith" THEN "value" ELSE "error"
               other == IF fop[g] = "SucceedWith" THEN "error" ELSE "value"
           IN  /\ fret[g] = "nil"
               /\ promise.closed = 1
               /\ \A h \in Fulfillers \ {g} :
                      /\ fpc[h] \in {"idle", "cas", "done"}
                      /\ fpc[h] = "done" => fret[h] = "ErrPromiseFulfilled"
               /\ sent[mine] = <<farg[g]>>
               /\ sent[other] = <<>>
               /\ \A r \in Readers :
                      rpc[r] = "done" =>
                          /\ rch[r] = mine
                          /\ rres[r].ok => rres[r].val = farg[g]

\* SucceedWith(1) returned nil, then FailWith(0) was called and returned
\* ErrPromiseFulfilled (or the other way round), and a reader got the 1.
C2_Witness ==
    \E g, h \in Fulfillers :
        /\ fret[g] = "nil" /\ fret[h] = "ErrPromiseFulfilled"
        /\ g \in fafter[h]
        /\ fop[g] # fop[h] /\ farg[g] # farg[h]
        /\ \E r \in Readers : rpc[r] = "done" /\ rres[r].ok

\* C3: after SucceedWith(v) has won, every completed receive from Value()
\* returned v, and every completed receive from Err() returned e after
\* FailWith(e), whatever the number of readers.
C3_EveryReceiveYieldsV ==
    \A f \in Fulfillers : \A r \in Readers :
        (/\ Won(f)
         /\ rpc[r] = "done"
         /\ rch[r] = (IF fop[f] = "SucceedWith" THEN "value" ELSE "error"))
        => rres[r].val = farg[f]

\* C4: once SucceedWith has settled the promise, the error channel is never
\* sent to and never closed and no receive on Err() has completed, whatever
\* other SucceedWith/FailWith calls are made; symmetrically for FailWith and
\* the value channel.
C4_OtherChannelSilent ==
    \A f \in Fulfillers :
        Won(f) =>
            LET other == IF fop[f] = "SucceedWith" THEN "error" ELSE "value"
            IN  /\ sent[other] = <<>>
                /\ promise[other].buf = <<>>
                /\ ~promise[other].closed
                /\ \A r \in Readers : rch[r] = other => rpc[r] # "done"

\* SucceedWith returned nil, a later FailWith returned ErrPromiseFulfilled
\* and a reader is still waiting on Err().
C4_Witness ==
    \E f, g \in Fulfillers : \E r \in Readers :
        /\ fop[f] = "SucceedWith" /\ fret[f] = "nil"
        /\ fop[g] = "FailWith" /\ fret[g] = "ErrPromiseFulfilled"
        /\ rch[r] = "error" /\ rpc[r] = "recv"

\* The next step of a call in progress.
FulfilStep(f) == FulfilCAS(f) \/ FulfilSend(f) \/ FulfilClose(f)

\* C14: a SucceedWith or FailWith call never blocks, in any interleaving and
\* whatever the readers do: in every state each call in progress can take
\* its next step, the call about to send finds its channel open with room
\* in the buffer, and no call panics.
C14_FulfilNeverBlocks ==
    \A f \in Fulfillers :
        /\ fpc[f] \in {"cas", "send", "close"} => ENABLED FulfilStep(f)
        /\ fpc[f] = "send" =>
              /\ ~promise[FulfilChan(fop[f])].closed
              /\ Len(promise[FulfilChan(fop[f])].buf) < PromiseChanCap
        /\ fret[f] # "panic"

\* Both calls have returned, one nil and one ErrPromiseFulfilled, and no
\* reader has ever received.
C14_Witness ==
    /\ \A r \in Readers : rpc[r] = "idle"
    /\ \E f, g \in Fulfillers :
          /\ fpc[f] = "done" /\ fret[f] = "nil"
          /\ fpc[g] = "done" /\ fret[g] = "ErrPromiseFulfilled"

\* Something has been sent on one of the two channels.
Published == sent.value # <<>> \/ sent.error # <<>>

\* C15: in every state in which the settled flag is set, and so in every
\* state in which a call has returned ErrPromiseFulfilled, the value or the
\* error of the winning call has already been sent on its channel.
C15_PublishedBeforeVisible ==
    /\ promise.closed = 1 => Published
    /\ \A f \in Fulfillers : fret[f] = "ErrPromiseFulfilled" => Published

\* C16: a SucceedWith or FailWith call that returns ErrPromiseFulfilled
\* changes nothing: neither the step that makes the call nor the step in
\* which it returns changes the flag, the contents of the two channels or
\* whether they are closed, and such a call has no other step.
C16_LoserMutatesNothing ==
    [][\A f \in Fulfillers :
          /\ (fpc[f] = "idle" /\ fpc'[f] # "idle")
               => (fpc'[f] = "cas" /\ promise' = promise /\ sent' = sent)
          /\ (fret[f] # "ErrPromiseFulfilled" /\ fret'[f] = "ErrPromiseFulfilled")
               => (fpc[f] = "cas" /\ fpc'[f] = "done"
                     /\ promise' = promise /\ sent' = sent)
      ]_vars

\* A FailWith has returned ErrPromiseFulfilled while the value of the winning
\* SucceedWith is still in the buffer of the closed value channel.
C16_Witness ==
    \E f, g \in Fulfillers :
        /\ fop[f] = "SucceedWith" /\ fret[f] = "nil"
        /\ fop[g] = "FailWith" /\ fret[g] = "ErrPromiseFulfilled"
        /\ promise.value = [buf |-> <<farg[f]>>, closed |-> TRUE]
        /\ promise.error = NewChan

\* The three states of a promise: the flag is clear; a SucceedWith call has
\* set it; a FailWith call has set it.
Pending == promise.closed = 0
FulfilledWithValue == \E f \in Fulfillers : Won(f) /\ fop[f] = "SucceedWith"
FulfilledWithError == \E f \in Fulfillers : Won(f) /\ fop[f] = "FailWith"

\* C17: a promise starts pending and is always in exactly one of the states
\* pending, fulfilled with a value, fulfilled with an error; no step of any
\* call or read takes it out of a fulfilled state or back to pending; and at
\* most one value is ever sent, on one of the two channels only.
C17_OneStateForever ==
    /\ Pending
    /\ [](/\ Cardinality({x \in {1, 2, 3} :
                 \/ x = 1 /\ Pending
                 \/ x = 2 /\ FulfilledWithValue
                 \/ x = 3 /\ FulfilledWithError}) = 1
          /\ Len(sent.value) + Len(sent.error) <= 1
          /\ sent.value # <<>> => FulfilledWithValue
          /\ sent.error # <<>> => FulfilledWithError)
    /\ [][/\ ~Pending => ~Pending'
          /\ FulfilledWithValue => FulfilledWithValue'
          /\ FulfilledWithError => FulfilledWithError'
         ]_vars

\* The promise is fulfilled with an error, a reader has received the error
\* and a later SucceedWith has returned ErrPromiseFulfilled.
C17_Witness ==
    /\ FulfilledWithError
    /\ \E r \in Readers : rpc[r] = "done" /\ rch[r] = "error" /\ rres[r].ok
    /\ \E g \in Fulfillers : fop[g] = "SucceedWith" /\ fret[g] = "ErrPromiseFulfilled"

\* The consumers whose select has taken a receive from the promise.
Received == {s \in Selectors : sres[s].branch \in {"value", "error"}}

ReceivedFrom(f) == {r \in Readers : rpc[r] = "done" /\ rch[r] = FulfilChan(fop[f])}

\* C30: the value of the winning call is delivered as one message. Of the
\* receives completed on Value() after SucceedWith(v) won, as many as there
\* are, exactly one obtained v and every other one the zero value with the
\* closed indication; and once the winning call has returned no receive on
\* Value() blocks: each one waiting can complete at once. The same holds of
\* FailWith(e) and Err().
C30_SingleMessage ==
    \A f \in Fulfillers :
        Won(f) =>
            /\ ReceivedFrom(f) # {} =>
                    \E r \in ReceivedFrom(f) :
                        /\ rres[r] = [val |-> farg[f], ok |-> TRUE]
                        /\ \A q \in ReceivedFrom(f) \ {r} :
                              rres[q] = [val |-> ZeroValue, ok |-> FALSE]
            /\ fpc[f] = "done" =>
                    \A r \in Readers :
                        (rpc[r] = "recv" /\ rch[r] = FulfilChan(fop[f])) => ENABLED RecvComplete(r)

\* Two receives on Value() after SucceedWith(1): the first obtained 1, the
\* second the zero value and the closed indication.
C30_Witness ==
    /\ \E f \in Fulfillers : Won(f) /\ fop[f] = "SucceedWith" /\ farg[f] = 1
    /\ rpc = [r \in Readers |-> "done"]
    /\ rch = [r \in Readers |-> "value"]
    /\ rres[1] = [val |-> 1, ok |-> TRUE]
    /\ rres[2] = [val |-> ZeroValue, ok |-> FALSE]

\* C31: in every interleaving of SucceedWith and FailWith calls, each of the
\* two channels of the promise is sent to at most once and closed at most
\* once, and its send comes before its close: a channel that is closed was
\* sent to, a send is made on an open channel that was never sent to, a
\* close is made on an open channel that was sent to, a closed channel stays
\* closed, and no call panics.
C31_OneSendOneClose ==
    /\ [](\A c \in {"value", "error"} :
            /\ Len(sent[c]) <= 1
            /\ promise[c].closed => Len(sent[c]) = 1)
    /\ [](\A f \in Fulfillers : fret[f] # "panic")
    /\ [][\A f \in Fulfillers :
            LET c == FulfilChan(fop[f])
            IN  /\ FulfilSend(f) =>
                    /\ ~promise[c].closed /\ sent[c] = <<>>
                    /\ sent'[c] = <<farg[f]>> /\ ~promise'[c].closed
                /\ FulfilClose(f) =>
                    /\ ~promise[c].closed /\ Len(sent[c]) = 1
                    /\ promise'[c].closed /\ sent'[c] = sent[c] ]_vars
    /\ [][\A c \in {"value", "error"} : promise[c].closed => promise'[c].closed]_vars

\* SucceedWith(1) and FailWith(1) were both called and have returned: the
\* value channel was sent to once and closed, the error channel never
\* touched, or the other way round.
C31_Witness ==
    /\ \A f \in Fulfillers : fpc[f] = "done"
    /\ {fop[f] : f \in Fulfillers} = {"SucceedWith", "FailWith"}
    /\ \E c \in {"value", "error"} : \E o \in {"value", "error"} \ {c} :
          /\ sent[c] = <<1>> /\ promise[c].closed
          /\ sent[o] = <<>> /\ ~promise[o].closed

---------------------------------------------------------------------------
(***************************************************************************)
(* Properties of PipeListener.                                             *)
(***************************************************************************)
AcceptedFrom(d) == {a \in Acceptors : apc[a] = "done" /\ aret[a].conn = ServerEnd(d)}

AcceptOK == {a \in Acceptors : apc[a] = "done" /\ aret[a].err = "nil"}
DialOK == {d \in Dialers : dpc[d] = "done" /\ dret[d].err = "nil"}

\* C5: in every interleaving of Accept, Dial/DialContext, Close and
\* cancellations, the endpoint offered by one dial is returned by at most one
\* Accept, a successful Accept returns the server endpoint of one dial, a dial
\* returns a connection (the client endpoint of its own pipe) iff exactly one
\* Accept returned the server endpoint of that pipe, and so there are as many
\* successful Accepts as successful dials.
C5_PairingOneToOne ==
    /\ \A d \in Dialers : Cardinality(AcceptedFrom(d)) <= 1
    /\ \A a \in Acceptors :
          apc[a] = "done" =>
              IF aret[a].err = "nil"
                THEN \E d \in Dialers : aret[a].conn = ServerEnd(d)
                ELSE aret[a].conn = NilConn
    /\ \A d \in Dialers :
          /\ d \in DialOK <=> Cardinality(AcceptedFrom(d)) = 1
          /\ dret[d].conn = (IF d \in DialOK THEN ClientEnd(d) ELSE NilConn)
    /\ Cardinality(AcceptOK) = Cardinality(DialOK)

\* Two pairings were made, the second Accept call with the first dial, and
\* the listener was closed afterwards.
C5_Witness ==
    /\ aret[1] = [conn |-> ServerEnd(2), err |-> "nil"]
    /\ aret[2] = [conn |-> ServerEnd(1), err |-> "nil"]
    /\ dret[1].err = "nil" /\ dret[2].err = "nil"
    /\ listener.done = "closed"

\* Accept call a and dial d are the only calls made on the listener.
OnlyCalls(a, d) ==
    /\ \A b \in Acceptors \ {a} : apc[b] = "idle"
    /\ \A e \in Dialers \ {d} : dpc[e] = "idle"
    /\ \A c \in Closers : cpc[c] = "idle"

Paired(a, d) ==
    /\ apc[a] = "done" /\ aret[a] = [conn |-> ServerEnd(d), err |-> "nil"]
    /\ dpc[d] = "done" /\ dret[d] = [conn |-> ClientEnd(d), err |-> "nil"]

\* C6: once one Accept call and one dial have been issued (in either order)
\* on an open listener, then unless the listener is closed, the dial's
\* context is cancelled or another Accept or dial is issued, both eventually
\* return a nil error and the two ends of the same pipe.
C6_AcceptDialPair ==
    \A a \in Acceptors : \A d \in Dialers :
        (apc[a] # "idle" /\ dpc[d] # "idle")
            ~> (Paired(a, d) \/ ~OnlyCalls(a, d) \/ dctx[d].err # "nil")

\* The only Accept and the only Dial made have returned the two ends of one
\* pipe.
C6_Witness ==
    /\ Paired(1, 1) /\ OnlyCalls(1, 1)
    /\ dctx[1].kind = "background"

\* C7: a call that started after a Close call had returned never returns a
\* connection.
C7_NoConnAfterClose ==
    /\ \A a \in Acceptors : ahist[a] => aret[a].conn = NilConn
    /\ \A d \in Dialers : dhist[d] => dret[d].conn = NilConn

\* No call other than Accept call a (dial d) is in progress.
QuietButAccept(a) ==
    /\ \A b \in Acceptors \ {a} : apc[b] \in {"idle", "done"}
    /\ \A d \in Dialers : dpc[d] \in {"idle", "done"}
    /\ \A c \in Closers : cpc[c] \in {"idle", "done"}

QuietButDial(d) ==
    /\ \A a \in Acceptors : apc[a] \in {"idle", "done"}
    /\ \A e \in Dialers \ {d} : dpc[e] \in {"idle", "done"}
    /\ \A c \in Closers : cpc[c] \in {"idle", "done"}

\* C8: when a Close call has returned and no other call is in progress, an
\* Accept call returns (nil, EINVAL) at once, without parking, and a Dial
\* call returns (nil, ECONNREFUSED) at once.
C8_ClosedFailsAtOnce ==
    [][/\ \A a \in Acceptors :
             (apc[a] = "idle" /\ apc'[a] # "idle"
                 /\ CloseReturned /\ QuietButAccept(a))
             => (apc'[a] = "done" /\ aret'[a] = [conn |-> NilConn, err |-> "EINVAL"])
       /\ \A d \in Dialers :
             (dpc[d] = "idle" /\ dpc'[d] # "idle" /\ dctx'[d].kind = "background"
                 /\ CloseReturned /\ QuietButDial(d))
             => (dpc'[d] = "done" /\ dret'[d] = [conn |-> NilConn, err |-> "ECONNREFUSED"])
      ]_vars

\* Close, then Accept, then Dial, as in TestPipeListener/WhenClosed.
C8_Witness ==
    /\ cret[1] = "nil"
    /\ ahist[1] /\ apc[1] = "done" /\ aret[1].err = "EINVAL"
    /\ dhist[1] /\ dpc[1] = "done" /\ dret[1].err = "ECONNREFUSED"
    /\ dctx[1].kind = "background"
    /\ QuietButAccept(1)

\* C9: once Close has been called (its compare-and-swap has run), every
\* Accept and every dial parked on the listener eventually returns, Accept
\* with EINVAL or a connection, a dial with ECONNREFUSED, a connection or its
\* context's error; no call is ever parked on a listener whose done channel
\* is closed; and the step that closes p.done makes every Accept parked then
\* return (nil, EINVAL) and every dial parked then (nil, ECONNREFUSED).
C9_CloseWakesAll ==
    /\ \A a \in Acceptors :
          (apc[a] = "parked" /\ listener.closed = 1)
              ~> (apc[a] = "done" /\ aret[a].err \in {"EINVAL", "nil"})
    /\ \A d \in Dialers :
          (dpc[d] = "parked" /\ listener.closed = 1)
              ~> (dpc[d] = "done" /\ dret[d].err \in {"ECONNREFUSED", "nil"} \cup CtxErrs)
    /\ [](listener.done = "closed" => RecvQ = {} /\ SendQ = {})
    /\ [][(listener.done = "open" /\ listener'.done = "closed")
            => /\ \A a \in RecvQ :
                     apc'[a] = "done" /\ aret'[a] = [conn |-> NilConn, err |-> "EINVAL"]
               /\ \A d \in SendQ :
                     dpc'[d] = "done" /\ dret'[d] = [conn |-> NilConn, err |-> "ECONNREFUSED"]
         ]_vars

\* Close has been called while two Accept calls are parked.
C9_Witness ==
    /\ listener.closed = 1 /\ listener.done = "open"
    /\ apc[1] = "parked" /\ apc[2] = "parked"

ClosesStarted == {c \in Closers : cpc[c] # "idle"}

\* C10: of any number of Close calls at most one passes the compare-and-swap
\* and closes p.done; once all have returned exactly one has returned nil
\* and every other EINVAL; no Close panics on a closed channel; and a Close
\* that returns EINVAL changes nothing of the listener or of any other call.
C10_CloseOnce ==
    /\ [](/\ Cardinality({c \in Closers : cpc[c] = "close" \/ cret[c] = "nil"}) <= 1
          /\ \A c \in Closers : cret[c] # "panic"
          /\ listener.done = "closed" <=> \E c \in Closers : cret[c] = "nil"
          /\ (ClosesStarted # {} /\ \A c \in ClosesStarted : cpc[c] = "done")
               => /\ Cardinality({c \in ClosesStarted : cret[c] = "nil"}) = 1
                  /\ \A c \in ClosesStarted : cret[c] \in {"nil", "EINVAL"})
    /\ [][\A c \in Closers :
             (cpc[c] = "idle" /\ cpc'[c] = "done")
             => (cret'[c] = "EINVAL"
                   /\ UNCHANGED <<listener, apc, aret, dpc, dret, dctx>>)]_vars

\* Two Close calls have returned, the first nil and the second EINVAL.
C10_Witness ==
    /\ cpc[1] = "done" /\ cret[1] = "nil"
    /\ cpc[2] = "done" /\ cret[2] = "EINVAL"

\* C11: a DialContext call made with an already cancelled context on an open
\* listener returns (nil, context.Canceled) in that very step, whatever the
\* state of the listener (an Accept parked or not), and no Accept call gets
\* anything from it.
C11_CancelledDialFails ==
    [][\A d \in Dialers :
          (/\ dpc[d] = "idle" /\ dpc'[d] # "idle"
           /\ dctx'[d] = [kind |-> "cancelable", err |-> "Canceled", late |-> FALSE]
           /\ listener.closed = 0)
          => /\ dpc'[d] = "done"
             /\ dret'[d] = [conn |-> NilConn, err |-> "Canceled"]
             /\ aret' = aret /\ apc' = apc
      ]_vars

\* The dial has returned an error.
DialFailed(d) == dpc[d] = "done" /\ dret[d].err # "nil"

\* C12: a dial that has returned an error has left no endpoint behind: its
\* pipe was never made, or was handed to an Accept, or has both ends closed.
C12_NoPipeLeftBehind ==
    \A d \in Dialers :
        DialFailed(d) =>
            \/ ~pipes[d].made
            \/ AcceptedFrom(d) # {}
            \/ pipes[d].closed = {"server", "client"}

\* C13: when the context of a dial parked on an open listener (so with no
\* Accept waiting) is cancelled or times out, the dial returns
\* (nil, ctx.Err()) and no Accept is touched; what it returned never changes
\* afterwards, and no Accept call, then or later, returns its endpoint.
C13_CancelWakesDial ==
    /\ [][\A d \in Dialers :
             /\ (dpc[d] = "parked" /\ dctx[d].err = "nil" /\ dctx'[d].err # "nil")
                  => /\ RecvQ = {} /\ listener.done = "open"
                     /\ dpc'[d] = "done"
                     /\ dret'[d] = [conn |-> NilConn, err |-> dctx'[d].err]
                     /\ apc' = apc /\ aret' = aret
             /\ (dpc[d] = "done" /\ dctx[d].late)
                  => (dpc'[d] = "done" /\ dret'[d] = dret[d])
         ]_vars
    /\ [](\A d \in Dialers :
             dctx[d].late => /\ dret[d] = [conn |-> NilConn, err |-> dctx[d].err]
                             /\ dctx[d].err \in CtxErrs
                             /\ AcceptedFrom(d) = {})

\* The first dial timed out while parked, and the Accept call made has got
\* the endpoint of the second dial.
C13_Witness ==
    /\ dctx[1].late /\ dret[1].err = "DeadlineExceeded"
    /\ apc[1] = "done" /\ aret[1].conn = ServerEnd(2)

\* C18: the listener starts open (flag 0, p.done open); the flag is 0 or 1
\* and p.done is only ever closed with the flag at 1; and no step of any
\* Accept, Dial, DialContext or Close call, nor any cancellation, clears the
\* flag once it is 1 or reopens p.done once it is closed.
C18_OpenThenClosed ==
    /\ listener.closed = 0 /\ listener.done = "open"
    /\ [](/\ listener.closed \in {0, 1}
          /\ listener.done \in {"open", "closed"}
          /\ listener.done = "closed" => listener.closed = 1)
    /\ [][/\ listener.closed = 1 => listener'.closed = 1
          /\ listener.done = "closed" => listener'.done = "closed"
         ]_vars

\* The listener is closed, and since a Close returned a second Close, an
\* Accept and a dial have been made and have returned.
C18_Witness ==
    /\ listener.closed = 1 /\ listener.done = "closed"
    /\ cpc[2] = "done" /\ cret[2] = "EINVAL"
    /\ ahist[1] /\ apc[1] = "done"
    /\ dhist[1] /\ dpc[1] = "done"

\* Accept call a is the next Accept call to be made, and it can return the
\* endpoint offered by the parked dial d.
CanPair(a, d) ==
    /\ apc[a] = "idle" /\ \A b \in 1..(a - 1) : apc[b] # "idle"
    /\ ENABLED (Accept(a) /\ aret'[a] = [conn |-> ServerEnd(d), err |-> "nil"])

\* C19: the listener and the connections it has handed out live apart.
\* Closing an end of a connection changes nothing of the listener nor of any
\* call on it, and whatever ends are closed a parked dial can still be paired
\* with a new Accept call; a step of Close changes no connection, and what a
\* call has returned is never changed.
C19_IndependentLifecycles ==
    /\ [][/\ (\E d \in Dialers : pipes'[d].closed # pipes[d].closed)
               => UNCHANGED <<listener, apc, aret, ahist, dpc, dret, dctx, dhist, cpc, cret>>
          /\ (listener' # listener \/ cpc' # cpc)
               => /\ pipes' = pipes
                  /\ \A a \in Acceptors : apc[a] = "done" => aret'[a] = aret[a]
                  /\ \A d \in Dialers : dpc[d] = "done" => dret'[d] = dret[d]
         ]_vars
    /\ [](\A d \in SendQ : \A a \in Acceptors :
             (apc[a] = "idle" /\ \A b \in 1..(a - 1) : apc[b] # "idle")
                 => CanPair(a, d))

\* Both ends of the first connection are closed, the listener is as
\* ListenPipe made it, and the second dial, parked, can be paired with a new
\* Accept call.
C19_Witness ==
    /\ pipes[1].closed = ConnEnds
    /\ listener = ListenPipe
    /\ dpc[2] = "parked" /\ CanPair(2, 2)

\* The step closes p.done.
ClosesDone == listener.done = "open" /\ listener'.done = "closed"

\* C27: the hand-off has no capacity. p.conns never holds an endpoint, and a
\* dial that has returned a connection has had its endpoint taken by an
\* Accept. A dial made with a live context on an open listener on which no
\* Accept waits blocks, and it stays blocked until an Accept takes its
\* endpoint, the listener is closed or its context is done; an Accept made
\* on an open listener on which no dial waits blocks, and it stays blocked
\* until a dial hands it an endpoint or the listener is closed.
C27_HandOffHasNoCapacity ==
    /\ [](listener.conns.buf = <<>>)
    /\ [](\A d \in Dialers :
            dret[d].conn # NilConn =>
                \E a \in Acceptors : apc[a] = "done" /\ aret[a].conn = ServerEnd(d))
    /\ [][\A d \in Dialers :
            /\ (dpc[d] = "idle" /\ dpc'[d] # "idle" /\ dctx'[d].err = "nil"
                    /\ RecvQ = {} /\ ~DoneClosed) => dpc'[d] = "parked"
            /\ (dpc[d] = "parked" /\ dpc'[d] # "parked") =>
                    \/ \E a \in Acceptors :
                          /\ apc[a] = "idle" /\ apc'[a] = "done"
                          /\ aret'[a].conn = ServerEnd(d)
                    \/ ClosesDone
                    \/ dctx'[d].err # "nil" ]_vars
    /\ [][\A a \in Acceptors :
            /\ (apc[a] = "idle" /\ apc'[a] # "idle" /\ SendQ = {} /\ ~DoneClosed) =>
                    apc'[a] = "parked"
            /\ (apc[a] = "parked" /\ apc'[a] # "parked") =>
                    \/ \E d \in Dialers :
                          /\ dpc[d] = "idle" /\ dpc'[d] = "done"
                          /\ aret'[a].conn = ServerEnd(d)
                    \/ ClosesDone ]_vars

\* Two Dial calls are blocked on the open listener: no Accept was made, no
\* Close, and their contexts are never done.
C27_Witness ==
    /\ \A d \in {1, 2} : dpc[d] = "parked" /\ dctx[d].kind = "background"
    /\ \A a \in Acceptors : apc[a] = "idle"
    /\ \A c \in Closers : cpc[c] = "idle"
    /\ listener.done = "open"

\* The calls made so far: each has run its select.
DialsMade == {d \in Dialers : dpc[d] # "idle"}
AcceptsMade == {a \in Acceptors : apc[a] # "idle"}

Min(m, n) == IF m <= n THEN m ELSE n

\* C28: when m dials whose contexts are not done and n Accept calls have
\* been made on a listener on which Close was not called, min(m, n) pairings
\* were made: min(m, n) dials and as many Accept calls have returned a
\* connection and no error, each Accept the server end of another of these
\* dials, and the other m - min(m, n) dials and n - min(m, n) Accept calls are
\* blocked.
C28_MinPairings ==
    ((\A c \in Closers : cpc[c] = "idle") /\ (\A d \in DialsMade : dctx[d].err = "nil")) =>
        LET m == Cardinality(DialsMade)
            n == Cardinality(AcceptsMade)
            paired == {d \in DialsMade : dpc[d] = "done" /\ dret[d] = [conn |-> ClientEnd(d), err |-> "nil"]}
            taken == {d \in Dialers : \E a \in AcceptsMade :
                         apc[a] = "done" /\ aret[a] = [conn |-> ServerEnd(d), err |-> "nil"]}
        IN  /\ Cardinality(paired) = Min(m, n)
            /\ taken = paired
            /\ Cardinality({a \in AcceptsMade : apc[a] = "done"}) = Min(m, n)
            /\ \A d \in DialsMade \ paired : dpc[d] = "parked"
            /\ Cardinality({a \in AcceptsMade : apc[a] = "parked"}) = n - Min(m, n)

\* Two dials and one Accept call were made: the Accept call has the server
\* end of the second dial, and the first dial is blocked.
C28_Witness ==
    /\ DialsMade = {1, 2} /\ AcceptsMade = {1}
    /\ \A c \in Closers : cpc[c] = "idle"
    /\ \A d \in DialsMade : dctx[d].err = "nil"
    /\ aret[1] = [conn |-> ServerEnd(2), err |-> "nil"]
    /\ dret[2] = [conn |-> ClientEnd(2), err |-> "nil"]
    /\ dpc[1] = "parked"

\* The outcomes of a call that has returned r, the connection a call may
\* return being conn.
Outcomes(r, conn) ==
    {o \in {"paired", "refused", "cancelled"} :
        CASE o = "paired"    -> r.conn = conn /\ r.err = "nil"
          [] o = "refused"   -> r.conn = NilConn /\ r.err \in {"EINVAL", "ECONNREFUSED"}
          [] o = "cancelled" -> r.conn = NilConn /\ r.err \in CtxErrs}

\* C29: a call of Accept, Dial or DialContext that has returned has returned
\* a connection or an error and not both: an Accept a server end and nil, or
\* nil and EINVAL; a dial the client end of its pipe and nil, or nil and
\* ECONNREFUSED, or nil and the error of its context, which is not nil. Its
\* outcome is one of paired, refused and cancelled, and a call that has not
\* returned has none.
C29_ConnOrError ==
    /\ \A a \in Acceptors :
          IF apc[a] = "done"
            THEN /\ (aret[a].conn = NilConn) # (aret[a].err = "nil")
                 /\ \/ \E d \in Dialers : Outcomes(aret[a], ServerEnd(d)) = {"paired"}
                    \/ /\ aret[a].err = "EINVAL"
                       /\ \A d \in Dialers : Outcomes(aret[a], ServerEnd(d)) = {"refused"}
            ELSE aret[a] = NoReturn
    /\ \A d \in Dialers :
          IF dpc[d] = "done"
            THEN /\ (dret[d].conn = NilConn) # (dret[d].err = "nil")
                 /\ Cardinality(Outcomes(dret[d], ClientEnd(d))) = 1
                 /\ dret[d].err # "EINVAL"
                 /\ dret[d].err \in CtxErrs => dret[d].err = dctx[d].err
            ELSE dret[d] = NoReturn

\* The calls have had every outcome: a dial was cancelled, a dial and an
\* Accept were paired, and an Accept made on the closed listener failed.
C29_Witness ==
    /\ dret[1] = [conn |-> NilConn, err |-> "Canceled"]
    /\ dret[2] = [conn |-> ClientEnd(2), err |-> "nil"]
    /\ aret[1] = [conn |-> ServerEnd(2), err |-> "nil"]
    /\ aret[2] = [conn |-> NilConn, err |-> "EINVAL"]

---------------------------------------------------------------------------
(***************************************************************************)
(* Properties of the zero-value PipeListener.                              *)
(***************************************************************************)
\* The calls that have run their select.
ZeroSelected == {p \in ZeroCalls : zop[p] \in {"Accept", "Dial"} /\ zpc[p] \in {"parked", "done"}}

\* C20: on a zero-value PipeListener, whatever calls are made first and
\* however they overlap, init runs once (two channels are ever made), no
\* call gets past p.initOnce.Do before both fields are set, every select
\* operates on those same two channels and never on a nil one, nothing
\* panics, an Accept and a dial are never left parked together (they pair
\* up), and an Accept started after a Close returned returns EINVAL.
C20_ZeroValueSafe ==
    /\ zmade <= 2
    /\ \A p \in ZeroCalls :
          zpc[p] \in {"body", "parked", "done"} =>
              /\ zl.initOnce = "done"
              /\ zl.conns # NilChan /\ zl.done # NilChan /\ zl.conns # zl.done
    /\ \A p \in ZeroSelected :
          /\ zuse[p] = [conns |-> zl.conns, done |-> zl.done]
          /\ zuse[p].conns # NilChan /\ zuse[p].done # NilChan
    /\ \A p \in ZeroCalls : zret[p].err # "panic"
    /\ \A p, q \in ZeroCalls :
          ~(zpc[p] = "parked" /\ zop[p] = "Accept" /\ zpc[q] = "parked" /\ zop[q] = "Dial")
    /\ \A p \in ZeroCalls :
          (zhist[p] /\ zop[p] = "Accept" /\ zpc[p] \in {"parked", "done"})
              => (zpc[p] = "done" /\ zret[p] = [conn |-> NilConn, err |-> "EINVAL"])

\* Three calls were made on the zero value while init had not returned: the
\* Accept and the Dial have paired up and the Close, which waited in
\* p.initOnce.Do, is about to resume.
C20_Witness ==
    /\ zop = <<"Accept", "Dial", "Close">>
    /\ zret[1] = [conn |-> ServerEnd(2), err |-> "nil"]
    /\ zret[2] = [conn |-> ClientEnd(2), err |-> "nil"]
    /\ zpc[3] = "wait"

(***************************************************************************)
(* Properties of the flags.                                                *)
(***************************************************************************)
\* A string every element of which the flag can take: any string for a
\* string flag, numbers between separators for a slice of numbers.
Settable(f, s) ==
    CASE f.kind = "string" -> TRUE
      [] f.kind = "slice"  -> s # <<>> /\ \A i \in 1..Len(s) : s[i] \in Numbers
      [] OTHER             -> FALSE

\* C22: InitFlagSet on a new flag set applies the environment, then cfg, then
\* the arguments, and the value of a flag comes from the source of the highest priority
\* that mentions it: what cfg holds for the flag is its value when the
\* visit of the flag ends, what the environment holds is its value when cfg
\* does not mention the flag, and the first argument that mentions the flag
\* replaces that value, for a slice too.
C22_HighestSourceWins ==
    [][/\ \A cfg \in Lookups :
            LET top == IF cfg.found THEN cfg.val ELSE inext
            IN  (VisitSet(cfg) /\ icalls = 1 /\ (cfg.found \/ inext # <<>>) /\ Settable(flg, top)) =>
                    flg'.val = top
       /\ \A s \in Strings :
            (ParseArg(s) /\ icalls = 1 /\ iargs = 0 /\ Settable(flg, s)) => flg'.val = s ]_vars

\* C23: on a slice flag with the separator ",", the first Set after the
\* registration, and the first one after the env/cfg phase of InitFlagSet,
\* replaces the contents, the defaults included; every later Set appends;
\* and a Set stores the values of its argument in their order.
C23_FirstSetReplaces ==
    [][/\ \A cfg \in Lookups :
            LET next == IF cfg.found THEN cfg.val ELSE inext
            IN  (VisitSet(cfg) /\ icalls = 1 /\ flg.kind = "slice" /\ Settable(flg, next)) =>
                    flg'.val = next
       /\ \A s \in Strings :
            (ParseArg(s) /\ flg.kind = "slice" /\ Settable(flg, s)) =>
                flg'.val = IF iargs = 0 THEN s ELSE flg.val \o s ]_vars

\* The flag registered with [1] and given -f=0 -f=1,0 holds [0, 1, 0].
C23_Witness ==
    /\ flg.kind = "slice"
    /\ flg.def = [form |-> "list", elems |-> <<1>>]
    /\ iargs = 2
    /\ flg.val = <<0, 1, 0>>

\* The flag is not mutable and held, when the call in progress (or the last
\* call) started, a value that was not its default.
HeldNonDefault ==
    /\ flg.kind \in {"string", "slice"}
    /\ FlagString([flg EXCEPT !.val = ipre.val]) # flg.def

\* C24 as stated: a second InitFlagSet call never changes a flag that is not
\* mutable and holds a value that is not its default.
C24_SecondCallChangesNothing ==
    (icalls >= 2 /\ HeldNonDefault) => flg.val = ipre.val

\* C24, amended: a second InitFlagSet call on a flag set that is parsed
\* never changes a flag that is not mutable and holds a value that is not
\* its default; the env/cfg phase visits only flags that hold their default
\* or are mutable, and no argument is parsed once the flag set is parsed.
C24_ParsedSetKeepsValue ==
    /\ []((icalls >= 2 /\ ipre.parsed /\ HeldNonDefault) => flg.val = ipre.val)
    /\ [][\A cfg \in Lookups :
            VisitSet(cfg) => (FlagString(flg) = flg.def \/ flg.kind = "feature")]_vars
    /\ [][\A s \in Strings : ParseArg(s) => ~ipre.parsed]_vars

\* A second call has returned on a parsed flag set whose slice flag held a
\* value given on the command line.
C24_Witness ==
    /\ icalls = 2
    /\ ipc = "idle"
    /\ ipre.parsed
    /\ flg.kind = "slice"
    /\ flg.def = [form |-> "list", elems |-> <<>>]
    /\ ipre.val = <<1, 0>>
    /\ flg.val = <<1, 0>>

(***************************************************************************)
(* Properties of the HTTP filters.                                         *)
(***************************************************************************)
\* The values the response holds for the header of the name.
HeaderGet(w, name) == {h.value : h \in {g \in w.header : g.name = name}}

\* The filter the loop is about to call lets the method of the request pass.
Allows(filter, method) == \E i \in 1..Len(filter.methods) : filter.methods[i] = method

\* C25: the filter of FilterHTTPMethod returns false and writes nothing
\* when the method of the request is one of its methods; otherwise it
\* returns true, writes the status 405, and sets the header "Allow" of the
\* response to its methods, sorted and joined with ", ".
C25_FilterHTTPMethod ==
    /\ [](\A i \in 1..Len(hfilters) :
            \A j \in 1..(Len(hfilters[i].methods) - 1) :
                Rank(hfilters[i].methods[j]) <= Rank(hfilters[i].methods[j + 1]))
    /\ [][Filter =>
            LET filter == hfilters[hidx]
            IN  IF Allows(filter, hreq)
                THEN /\ ~hlog'[Len(hlog')].filtered
                     /\ hw' = hw
                ELSE /\ hlog'[Len(hlog')].filtered
                     /\ hw'.status = StatusMethodNotAllowed
                     /\ HeaderGet(hw', "Allow") = {Join(filter.methods, ", ")} ]_vars

\* The index of the first filter that does not let the method pass, 0 when
\* every filter lets it pass.
FirstFiltering(method) ==
    LET stop == {i \in 1..Len(hfilters) : ~Allows(hfilters[i], method)}
    IN  IF stop = {} THEN 0 ELSE CHOOSE i \in stop : \A j \in stop : i <= j

\* C26: the filtering handler calls its filters in order and stops at the
\* first that returns true; it calls the wrapped handler once when no
\* filter returned true and never otherwise; no filter after the one that
\* returned true is called.
C26_FiltersInOrder ==
    /\ \A i \in 1..Len(hlog) : hlog[i].filter = i
    /\ \A i \in 1..(Len(hlog) - 1) : ~hlog[i].filtered
    /\ hserved <= 1
    /\ (hpc = "idle" /\ hreq # "none") =>
            IF FirstFiltering(hreq) = 0
            THEN /\ Len(hlog) = Len(hfilters)
                 /\ \A i \in 1..Len(hlog) : ~hlog[i].filtered
                 /\ hserved = 1
            ELSE /\ Len(hlog) = FirstFiltering(hreq)
                 /\ hlog[Len(hlog)].filtered
                 /\ hserved = 0

\* A request was filtered by the first of two filters: the second filter
\* and the wrapped handler were not called.
C26_Witness ==
    /\ hpc = "idle"
    /\ Len(hfilters) = 2
    /\ hlog = <<[filter |-> 1, filtered |-> TRUE]>>
    /\ hserved = 0
    /\ Allows(hfilters[2], hreq)

===========================================================================
